---------------------------- MODULE Spec2Model ----------------------------
(***************************************************************************)
(* A model of kvdb (src/db.go): the build phase (DB.Init -> preprocess ->  *)
(* parseOneChunk / dumpOneChunk) that partitions an input file into sorted *)
(* chunks written to a dump file, and the serving phase (DB.Get) that      *)
(* looks a key up through the sorted chunk metadata, a singleflight group  *)
(* and an LRU pool of decoded chunks.                                      *)
(*                                                                         *)
(* Byte strings are sequences of byte values (ASCII codes).  The input     *)
(* file is the sequence of its lines (each a byte string without '\n')     *)
(* together with lastNL, which says whether the final line is terminated   *)
(* by '\n'.  The dump file is one byte string.                             *)
(***************************************************************************)
EXTENDS Integers, Sequences, FiniteSets, TLC

VARIABLES
    input,      \* the lines of the input file, in file order
    lastNL,     \* TRUE iff the final line of the input ends with '\n'
    phase,      \* "new" | "serving" | "failed" | "panicked"
    initErr,    \* the error DB.Init returned (Nil when none)
    metas,      \* db.metas: sequence of chunkMeta records
    file,       \* db.file: the bytes of db.dump
    chunkPool,  \* db.chunkPool: LRU entries, most recently used first
    single,     \* db.single: for each chunk id, the calls made for it so far
    heap,       \* the decoded chunks in memory, by pointer
    g,          \* per goroutine: position in Get and its local variables
    reads,      \* per chunk id: number of ReadAt+Decode performed
    nfail,      \* number of failed disk reads so far
    used        \* the ids of the chunks in the pool, last served by Get first

vars == <<input, lastNL, phase, initErr, metas, file, chunkPool, single, heap,
          g, reads, nfail, used>>

\* the nil pointer, the nil error
Nil == [nil |-> TRUE]
\* io.EOF
EOF == [err |-> "EOF"]

-----------------------------------------------------------------------------
(* Bounds of the model and program constants *)

\* src/db.go:18
MaxChunkSize == 10
\* the capacity of the LRU pool: src/db.go:19 sets 30, the model takes a
\* small capacity so that the bounded inputs fill the pool and evict from it
MaxChunks == 2

\* at most this many lines in the input file
MaxLines == 3
\* at most this many failed disk reads in one behaviour
MaxFail == 1
\* at most this many disk reads of one chunk in one behaviour
MaxReads == 2
\* goroutines calling Get concurrently
NProcs == 2

\* ' ' as split by bytes.Split at src/db.go:96
SP == 32
\* '\n' as read by reader.ReadBytes at src/db.go:86
NL == 10

-----------------------------------------------------------------------------
(* Bytes *)

Min(a, b) == IF a < b THEN a ELSE b

\* bytes.Compare: lexicographic, a proper prefix is smaller
RECURSIVE BytesCompare(_, _)
BytesCompare(a, b) ==
    IF a = <<>> /\ b = <<>> THEN 0
    ELSE IF a = <<>> THEN -1
    ELSE IF b = <<>> THEN 1
    ELSE IF Head(a) < Head(b) THEN -1
    ELSE IF Head(a) > Head(b) THEN 1
    ELSE BytesCompare(Tail(a), Tail(b))

\* n copies of byte c
Rep(c, n) == [i \in 1..n |-> c]

\* strconv.Itoa for 0..99 (ASCII digits)
Itoa(n) == IF n < 10 THEN <<48 + n>> ELSE <<48 + (n \div 10), 48 + (n % 10)>>

\* bytes.Split(b, " "): the fields between single spaces; always at least one
RECURSIVE SplitFrom(_, _, _)
SplitFrom(b, i, cur) ==
    IF i > Len(b) THEN <<cur>>
    ELSE IF b[i] = SP THEN <<cur>> \o SplitFrom(b, i + 1, <<>>)
    ELSE SplitFrom(b, i + 1, Append(cur, b[i]))

Split(b) == SplitFrom(b, 1, <<>>)

\* fields joined by single spaces (how the tests write a line, fmt.Fprintf)
RECURSIVE Join(_)
Join(fs) ==
    IF Len(fs) = 0 THEN <<>>
    ELSE IF Len(fs) = 1 THEN fs[1]
    ELSE fs[1] \o <<SP>> \o Join(Tail(fs))

-----------------------------------------------------------------------------
(* The inputs *)

\* "a", "ab", "b", "c"
KeySet == {<<97>>, <<97, 98>>, <<98>>, <<99>>}
\* "xxxx" and "yyyyyyyyy"
ValSet == {Rep(120, 4), Rep(121, 9)}

\* "<key_len> <key> <value_len> <value>"
RecordLine(k, v) == Join(<<Itoa(Len(k)), k, Itoa(Len(v)), v>>)

GoodLines == {RecordLine(k, v) : k \in KeySet, v \in ValSet}
\* the empty line (one field), three fields, five fields
BadLines == {<<>>,
             Join(<<Itoa(1), <<98>>, Itoa(4)>>),
             Join(<<Itoa(1), <<98>>, Itoa(4), Rep(120, 4), <<122>>>>)}
LineSet == GoodLines \cup BadLines

Inputs(n) == UNION {[1..m -> LineSet] : m \in 0..n}

\* an unterminated final line holds at least one byte
InputOK(ls, nl) == nl \/ (Len(ls) > 0 /\ ls[Len(ls)] # <<>>)


-----------------------------------------------------------------------------
(* Build: parseOneChunk *)

\* reader.ReadBytes('\n') at line number pos of the file: the line with its
\* '\n' and no error, or what is left of the file with io.EOF
ReadBytes(ls, nl, pos) ==
    IF pos > Len(ls) THEN [b |-> <<>>, err |-> EOF, pos |-> pos]
    ELSE IF pos = Len(ls) /\ ~nl THEN [b |-> ls[pos], err |-> EOF, pos |-> pos + 1]
    ELSE [b |-> Append(ls[pos], NL), err |-> Nil, pos |-> pos + 1]

\* bytes.TrimSuffix(b, "\n")
TrimSuffix(b) ==
    IF Len(b) > 0 /\ b[Len(b)] = NL THEN SubSeq(b, 1, Len(b) - 1) ELSE b

\* the loop of parseOneChunk: KVs read so far, their size, the line counter
RECURSIVE parseLoop(_, _, _, _, _, _)
parseLoop(ls, nl, pos, kvs, size, ln) ==
    LET rd  == ReadBytes(ls, nl, pos)
        b   == TrimSuffix(rd.b)
        res == Split(b)
    IN  IF rd.err # Nil
        THEN \* io.EOF: the chunk so far; the bytes read with it are not used
             [chunk |-> [KVs |-> kvs, Meta |-> Nil], err |-> rd.err, pos |-> rd.pos]
        ELSE IF Len(res) < 4
        THEN [chunk |-> Nil,
              err |-> [err |-> "fields", fields |-> Len(res), line |-> ln],
              pos |-> rd.pos]
        ELSE LET kvs2  == Append(kvs, [Key |-> res[2], Value |-> res[4]])
                 size2 == size + Len(res[2]) + Len(res[4])
             IN  IF size2 >= MaxChunkSize
                 THEN [chunk |-> [KVs |-> kvs2, Meta |-> Nil], err |-> Nil, pos |-> rd.pos]
                 ELSE parseLoop(ls, nl, rd.pos, kvs2, size2, ln + 1)

parseOneChunk(ls, nl, pos) == parseLoop(ls, nl, pos, <<>>, 0, 1)

-----------------------------------------------------------------------------
(* Build: sorting (sort.Sort is an insertion sort below 12 elements) *)

\* chunk.Less on two kvPairs
chunkLess(a, b) == BytesCompare(a.Key, b.Key) = -1

\* chunkMetas.Less on two chunkMetas, with the order reversed
chunkMetasLessReversed(a, b) == BytesCompare(a.StartKey, b.StartKey) > 0

\* chunkMetas.Less on two chunkMetas
chunkMetasLess(a, b) == BytesCompare(a.StartKey, b.StartKey) < 0

Swap(s, i, j) == [s EXCEPT ![i] = s[j], ![j] = s[i]]

\* for j := i; j > a && less(j, j-1); j-- { swap(j, j-1) }
RECURSIVE sinkKV(_, _)
sinkKV(s, j) ==
    IF j > 1 /\ chunkLess(s[j], s[j - 1]) THEN sinkKV(Swap(s, j, j - 1), j - 1) ELSE s

RECURSIVE sortKVsFrom(_, _)
sortKVsFrom(s, i) == IF i > Len(s) THEN s ELSE sortKVsFrom(sinkKV(s, i), i + 1)

\* sort.Sort(tmpchunk)
SortChunk(c) == [c EXCEPT !.KVs = sortKVsFrom(c.KVs, 2)]

RECURSIVE sinkMeta(_, _)
sinkMeta(s, j) ==
    IF j > 1 /\ chunkMetasLess(s[j], s[j - 1]) THEN sinkMeta(Swap(s, j, j - 1), j - 1) ELSE s

RECURSIVE sortMetasFrom(_, _)
sortMetasFrom(s, i) == IF i > Len(s) THEN s ELSE sortMetasFrom(sinkMeta(s, i), i + 1)

\* sort.Sort(db.metas)
SortMetas(ms) == sortMetasFrom(ms, 2)

-----------------------------------------------------------------------------
(* Build: the serialised form of a chunk and dumpOneChunk *)

\* encoder.Encode(tmpchunk): the number of KVs, then each key and value with
\* its length before it (Meta is nil when a chunk is written and is not sent)
RECURSIVE encodeKVs(_)
encodeKVs(kvs) ==
    IF kvs = <<>> THEN <<>>
    ELSE <<Len(Head(kvs).Key)>> \o Head(kvs).Key
         \o <<Len(Head(kvs).Value)>> \o Head(kvs).Value
         \o encodeKVs(Tail(kvs))

Encode(c) == <<Len(c.KVs)>> \o encodeKVs(c.KVs)

\* decoder.Decode: n KVs read from buf at index i; "short" when buf ends early
RECURSIVE decodeKVs(_, _, _)
decodeKVs(buf, i, n) ==
    IF n = 0 THEN [kvs |-> <<>>, err |-> Nil]
    ELSE IF i > Len(buf) \/ i + buf[i] + 1 > Len(buf) THEN [kvs |-> <<>>, err |-> [err |-> "decode"]]
    ELSE LET kl  == buf[i]
             key == SubSeq(buf, i + 1, i + kl)
             vl  == buf[i + kl + 1]
             val == SubSeq(buf, i + kl + 2, i + kl + 1 + vl)
         IN  IF i + kl + 1 + vl > Len(buf) THEN [kvs |-> <<>>, err |-> [err |-> "decode"]]
             ELSE LET rest == decodeKVs(buf, i + kl + 2 + vl, n - 1)
                  IN  IF rest.err # Nil THEN rest
                      ELSE [kvs |-> <<[Key |-> key, Value |-> val]>> \o rest.kvs,
                            err |-> Nil]

Decode(buf) ==
    IF buf = <<>> THEN [kvs |-> <<>>, err |-> EOF]
    ELSE decodeKVs(buf, 2, buf[1])

\* a dump that records the end of the chunk as its StartLoc
dumpOneChunkAtEnd(tmpchunk, f, lastLoc, id) ==
    LET f2     == f \o Encode(tmpchunk)
        offset == Len(f2)
    IN  IF Len(tmpchunk.KVs) = 0
        THEN [meta |-> Nil, err |-> [err |-> "panic"], file |-> f2, lastLoc |-> lastLoc]
        ELSE [meta |-> [ID |-> id,
                        StartKey |-> tmpchunk.KVs[1].Key,
                        StartLoc |-> offset,
                        Len |-> offset - lastLoc,
                        Chunk |-> Nil],
              err |-> Nil, file |-> f2, lastLoc |-> offset]

\* dumpOneChunk: append the chunk to the file, describe it in a chunkMeta
dumpOneChunk(tmpchunk, f, lastLoc, id) ==
    LET f2     == f \o Encode(tmpchunk)
        offset == Len(f2)
    IN  IF Len(tmpchunk.KVs) = 0
        THEN \* tmpchunk.KVs[0]: index out of range, after the write
             [meta |-> Nil, err |-> [err |-> "panic"], file |-> f2, lastLoc |-> lastLoc]
        ELSE [meta |-> [ID |-> id,
                        StartKey |-> tmpchunk.KVs[1].Key,
                        StartLoc |-> lastLoc,
                        Len |-> offset - lastLoc,
                        Chunk |-> Nil],
              err |-> Nil, file |-> f2, lastLoc |-> offset]

-----------------------------------------------------------------------------
(* Build: preprocess and DB.Init *)

RECURSIVE preprocessLoop(_, _, _, _, _, _, _)
preprocessLoop(ls, nl, pos, id, startLoc, f, ms) ==
    LET r == parseOneChunk(ls, nl, pos)
    IN  IF r.chunk = Nil
        THEN [err |-> r.err, metas |-> ms, file |-> f]
        ELSE LET nonEmpty == Len(r.chunk.KVs) > 0
                 d   == dumpOneChunk(SortChunk(r.chunk), f, startLoc, id)
                 ms2 == IF nonEmpty THEN Append(ms, d.meta) ELSE ms
                 f2  == IF nonEmpty THEN d.file ELSE f
                 sl2 == IF nonEmpty THEN d.lastLoc ELSE startLoc
             IN  IF r.err = EOF
                 THEN [err |-> Nil, metas |-> SortMetas(ms2), file |-> f2]
                 ELSE preprocessLoop(ls, nl, r.pos, id + 1, sl2, f2, ms2)

preprocess(ls, nl) == preprocessLoop(ls, nl, 1, 0, 0, <<>>, <<>>)


-----------------------------------------------------------------------------
(* Serving: the searches *)

\* the loop of lowerSearchMeta; first counts from 0 as in the source
RECURSIVE lowerSearchLoop(_, _, _, _)
lowerSearchLoop(ms, key, first, leng) ==
    IF leng > 0
    THEN LET half   == leng \div 2
             middle == first + half
         IN  IF BytesCompare(ms[middle + 1].StartKey, key) < 0
             THEN lowerSearchLoop(ms, key, middle + 1, leng - half - 1)
             ELSE lowerSearchLoop(ms, key, first, half)
    ELSE first

\* a metadata search that steps one entry back from the lower bound
lowerSearchMetaBack(ms, key) ==
    LET first == lowerSearchLoop(ms, key, 0, Len(ms)) - 1
    IN  [first |-> first, panic |-> first < 0 \/ first >= Len(ms)]

\* lowerSearchMeta: the index it returns; db.metas[first] is out of range,
\* and the call panics, when first = len(db.metas)
lowerSearchMeta(ms, key) ==
    LET first == lowerSearchLoop(ms, key, 0, Len(ms))
    IN  [first |-> first, panic |-> first >= Len(ms)]

\* a search whose predicate is (KVs[i].Key >= key): the lower bound, taken
\* for a match without a test for equality
RECURSIVE searchLoopGE(_, _, _, _)
searchLoopGE(kvs, key, i, j) ==
    IF i < j
    THEN LET h == (i + j) \div 2
         IN  IF BytesCompare(kvs[h + 1].Key, key) < 0
             THEN searchLoopGE(kvs, key, h + 1, j)
             ELSE searchLoopGE(kvs, key, i, h)
    ELSE i

\* sort.Search(n, f) with f(i) = (KVs[i].Key equals key); i and j count from 0
RECURSIVE searchLoop(_, _, _, _)
searchLoop(kvs, key, i, j) ==
    IF i < j
    THEN LET h == (i + j) \div 2
         IN  IF BytesCompare(kvs[h + 1].Key, key) # 0
             THEN searchLoop(kvs, key, h + 1, j)
             ELSE searchLoop(kvs, key, i, h)
    ELSE i

sortSearch(kvs, key) == searchLoop(kvs, key, 0, Len(kvs))

\* lines 259-267 of Get: what it returns from the chunk it fetched
searchChunk(c, key) ==
    LET idx == sortSearch(c.KVs, key)
    IN  IF idx >= Len(c.KVs)
        THEN [val |-> <<>>, err |-> [err |-> "no such key"]]
        ELSE [val |-> c.KVs[idx + 1].Value, err |-> Nil]

-----------------------------------------------------------------------------
(* Serving: the LRU pool (lru.Cache of groupcache) and the dump file *)

RECURSIVE poolIndex(_, _, _)
poolIndex(pool, key, i) ==
    IF i > Len(pool) THEN 0
    ELSE IF pool[i].key = key THEN i
    ELSE poolIndex(pool, key, i + 1)

RemoveAt(s, i) == SubSeq(s, 1, i - 1) \o SubSeq(s, i + 1, Len(s))

\* chunkPool.Add(key, value): a known key moves to the front with the new
\* value; a new key is pushed at the front and, beyond MaxChunks entries, the
\* oldest entry is removed and handed to OnEvicted
lruAdd(pool, key, value) ==
    LET i == poolIndex(pool, key, 1)
    IN  IF i > 0
        THEN [pool |-> <<[key |-> key, value |-> value]>> \o RemoveAt(pool, i),
              evicted |-> Nil]
        ELSE LET pushed == <<[key |-> key, value |-> value]>> \o pool
             IN  IF MaxChunks # 0 /\ Len(pushed) > MaxChunks
                 THEN [pool |-> SubSeq(pushed, 1, Len(pushed) - 1),
                       evicted |-> pushed[Len(pushed)]]
                 ELSE [pool |-> pushed, evicted |-> Nil]

\* an eviction callback that also empties the evicted chunk
OnEvictedDropsKVs(h, ms, key, value) ==
    [heap |-> [h EXCEPT ![value].Meta = Nil, ![value].KVs = <<>>], metas |-> ms]

\* db.chunkPool.OnEvicted (lines 190-192): value.(*chunk).Meta = nil
\* applied to the heap h and db.metas
OnEvicted(h, ms, key, value) ==
    [heap |-> [h EXCEPT ![value].Meta = Nil], metas |-> ms]

\* db.file.ReadAt(buf, off) with len(buf) = n: the bytes there are, and
\* io.EOF when the file ends before n bytes
ReadAt(f, off, n) ==
    [buf |-> SubSeq(f, off + 1, Min(off + n, Len(f))),
     err |-> IF off + n > Len(f) THEN EOF ELSE Nil]

\* the function Get hands to db.single.Do (lines 230-244)
loadChunk(f, meta) ==
    LET rd  == ReadAt(f, meta.StartLoc, meta.Len)
        dec == Decode(rd.buf)
    IN  IF dec.err # Nil /\ dec.err # EOF
        THEN [chunk |-> Nil, err |-> dec.err]
        ELSE [chunk |-> [KVs |-> dec.kvs, Meta |-> Nil], err |-> Nil]


-----------------------------------------------------------------------------
(* The state machine *)

\* a call of singleflight as Do makes it: in the map of the group, its
\* function not run yet
NewCall == [in |-> TRUE, done |-> FALSE, val |-> Nil, err |-> Nil]

\* a goroutine that has not called Get yet; late tells of a call of Get
\* that it started after a call for the same chunk had returned the error
\* of a failed read; call is the call of singleflight it holds inside
\* db.single.Do (its number among the calls for the chunk id)
Idle0 == [pc |-> "idle", key |-> <<>>, first |-> 0, c |-> Nil, slow |-> FALSE,
          done |-> FALSE, val |-> <<>>, err |-> Nil, late |-> FALSE,
          call |-> 0]

InitWith(ls, nl, procs) ==
    /\ input = ls
    /\ lastNL = nl
    /\ phase = "new"
    /\ initErr = Nil
    /\ metas = <<>>
    /\ file = <<>>
    /\ chunkPool = <<>>
    /\ single = [id \in 0..(MaxLines - 1) |-> <<>>]
    /\ heap = <<>>
    /\ g = [p \in procs |-> Idle0]
    /\ reads = [id \in 0..(MaxLines - 1) |-> 0]
    /\ nfail = 0
    /\ used = <<>>

\* any input file of at most MaxLines lines, one goroutine
Init ==
    \E ls \in Inputs(MaxLines), nl \in BOOLEAN :
        /\ InputOK(ls, nl)
        /\ InitWith(ls, nl, {1})

\* the fields of line i of the input
Fields(i) == Split(input[i])

\* every line of the input holds exactly four fields
WellFormed == \A i \in 1..Len(input) : Len(Fields(i)) = 4

\* the lines that hold a key, and the record of such a line
KeyLines == {i \in 1..Len(input) : Len(Fields(i)) >= 4}
InputKV(i) == [Key |-> Fields(i)[2], Value |-> Fields(i)[4]]
InputKeys == {InputKV(i).Key : i \in KeyLines}

\* no two lines of the input hold the same key
UniqueKeys == \A i, j \in KeyLines : i # j => InputKV(i).Key # InputKV(j).Key

\* well-formed files that end with '\n', with distinct keys among "a", "b", "c"
\* and values of one length, read by NProcs goroutines
ConcKeys == {<<97>>, <<98>>, <<99>>}
InitConc ==
    \E ls \in Inputs(MaxLines) :
        /\ \A i \in 1..Len(ls) :
              Len(Split(ls[i])) = 4 /\ Split(ls[i])[2] \in ConcKeys
        /\ \A i, j \in 1..Len(ls) :
              /\ i # j => Split(ls[i])[2] # Split(ls[j])[2]
              /\ Len(Split(ls[i])[4]) = Len(Split(ls[j])[4])
        /\ InitWith(ls, TRUE, 1..NProcs)

\* DB.Init: preprocess, then the empty pool
DBInit ==
    /\ phase = "new"
    /\ LET r == preprocess(input, lastNL)
       IN  /\ phase' = IF r.err = Nil THEN "serving" ELSE "failed"
           /\ initErr' = r.err
           /\ metas' = r.metas
           /\ file' = r.file
    /\ chunkPool' = <<>>
    /\ UNCHANGED <<input, lastNL, single, heap, g, reads, nfail, used>>

\* the ids in a pool
PoolIds(pool) == {pool[i].key : i \in 1..Len(pool)}

\* a sequence without the elements outside S
RECURSIVE Only(_, _)
Only(s, S) ==
    IF s = <<>> THEN <<>>
    ELSE IF Head(s) \in S THEN <<Head(s)>> \o Only(Tail(s), S)
    ELSE Only(Tail(s), S)

\* Get has served a key from chunk id: id comes first, the ids that are not
\* in the pool are forgotten
Touch(u, id, ids) == Only(<<id>> \o Only(u, DOMAIN reads \ {id}), ids)

\* the chunkMeta a goroutine in Get holds
MetaOf(p) == metas[g[p].first + 1]

\* Get returns (val, err): the goroutine keeps the key it asked for, the
\* index lowerSearchMeta gave it and what it got, its other locals are gone
Return(gp, val, err) ==
    [Idle0 EXCEPT !.key = gp.key, !.first = gp.first, !.done = TRUE,
                  !.val = val, !.err = err]

\* a call of Get that the metadata search led to index first has returned
\* the error of a failed read
FailedBefore(first) ==
    \E q \in DOMAIN g :
        g[q].done /\ g[q].err = [err |-> "read"] /\ g[q].first = first

\* Get, lines 219-227: the metadata search and the test of meta.Chunk; with
\* the chunk already there, lines 259-267 as well
GetStart(p, key) ==
    /\ phase = "serving"
    /\ g[p].pc = "idle"
    /\ LET r  == lowerSearchMeta(metas, key)
           g0 == [Idle0 EXCEPT !.key = key, !.first = r.first,
                               !.late = FailedBefore(r.first)]
       IN  IF r.panic
           THEN /\ phase' = "panicked"
                /\ g' = [g EXCEPT ![p] = [g0 EXCEPT !.pc = "panic",
                                                     !.err = [err |-> "panic"]]]
                /\ used' = used
           ELSE LET meta == metas[r.first + 1]
                IN  /\ phase' = phase
                    /\ IF meta.Chunk # Nil
                       THEN LET res == searchChunk(heap[meta.Chunk], key)
                            IN  /\ g' = [g EXCEPT ![p] =
                                           Return([g0 EXCEPT !.c = meta.Chunk],
                                                  res.val, res.err)]
                                /\ used' = Touch(used, meta.ID, PoolIds(chunkPool))
                       ELSE /\ g' = [g EXCEPT ![p] = [g0 EXCEPT !.pc = "do",
                                                                !.slow = TRUE]]
                            /\ used' = used
    /\ UNCHANGED <<input, lastNL, initErr, metas, file, chunkPool, single, heap,
                   reads, nfail>>

\* what a caller of db.single.Do does with the (c, err) it gets, lines 246-248
Got(gq, c, err) ==
    IF c = Nil \/ err # Nil
    THEN Return(gq, <<>>, err)
    ELSE [gq EXCEPT !.pc = "add", !.c = c, !.err = Nil, !.call = 0]

\* the number of the call that the map of db.single holds for id, or 0: a
\* call is made only when the map holds none, so it is the last one made
InMap(id) ==
    IF Len(single[id]) > 0 /\ single[id][Len(single[id])].in
    THEN Len(single[id]) ELSE 0

\* db.single.Do, on entry, under the group's mutex: with a call for this id
\* in the map, hold it and go to c.wg.Wait(); with none, make one, put it in
\* the map and go to run the function
DoEnter(p) ==
    /\ phase = "serving"
    /\ g[p].pc = "do"
    /\ LET id == MetaOf(p).ID
       IN  IF InMap(id) > 0
           THEN /\ g' = [g EXCEPT ![p].pc = "wait", ![p].call = InMap(id)]
                /\ single' = single
           ELSE /\ g' = [g EXCEPT ![p].pc = "load",
                                  ![p].call = Len(single[id]) + 1]
                /\ single' = [single EXCEPT ![id] = Append(@, NewCall)]
    /\ UNCHANGED <<input, lastNL, phase, initErr, metas, file, chunkPool, heap,
                   reads, nfail, used>>

\* c.val, c.err = fn(); c.wg.Done(): the call that p holds is done
Done(p, c, err) ==
    [single EXCEPT ![MetaOf(p).ID][g[p].call] =
        [in |-> TRUE, done |-> TRUE, val |-> c, err |-> err]]

\* the function of db.single.Do runs: the read and decode of the chunk, and
\* c.wg.Done()
DoLoad(p) ==
    /\ phase = "serving"
    /\ g[p].pc = "load"
    /\ LET meta == MetaOf(p)
           id   == meta.ID
           r    == loadChunk(file, meta)
           ptr  == [id |-> id, gen |-> reads[id] + 1]
       IN  /\ reads[id] < MaxReads
           /\ reads' = [reads EXCEPT ![id] = @ + 1]
           /\ IF r.err = Nil
              THEN /\ heap' = (ptr :> r.chunk) @@ heap
                   /\ single' = Done(p, ptr, Nil)
              ELSE /\ heap' = heap
                   /\ single' = Done(p, Nil, r.err)
    /\ g' = [g EXCEPT ![p].pc = "del"]
    /\ UNCHANGED <<input, lastNL, phase, initErr, metas, file, chunkPool, nfail,
                   used>>

\* the same, with db.file.ReadAt failing
DoLoadFail(p) ==
    /\ phase = "serving"
    /\ g[p].pc = "load"
    /\ nfail < MaxFail
    /\ reads[MetaOf(p).ID] < MaxReads
    /\ reads' = [reads EXCEPT ![MetaOf(p).ID] = @ + 1]
    /\ single' = Done(p, Nil, [err |-> "read"])
    /\ g' = [g EXCEPT ![p].pc = "del"]
    /\ nfail' = nfail + 1
    /\ UNCHANGED <<input, lastNL, phase, initErr, metas, file, chunkPool, heap,
                   used>>

\* the end of db.single.Do for the caller that ran the function: under the
\* group's mutex, delete(g.m, key); then Do returns (c.val, c.err), lines
\* 246-248
DoDelete(p) ==
    /\ phase = "serving"
    /\ g[p].pc = "del"
    /\ LET c == single[MetaOf(p).ID][g[p].call]
       IN  /\ single' = [single EXCEPT ![MetaOf(p).ID][g[p].call].in = FALSE]
           /\ g' = [g EXCEPT ![p] = Got(g[p], c.val, c.err)]
    /\ UNCHANGED <<input, lastNL, phase, initErr, metas, file, chunkPool, heap,
                   reads, nfail, used>>

\* a caller in c.wg.Wait() goes on once the call it holds is done, be the
\* call still in the map or not: Do returns (c.val, c.err), lines 246-248
DoWake(p) ==
    /\ phase = "serving"
    /\ g[p].pc = "wait"
    /\ LET c == single[MetaOf(p).ID][g[p].call]
       IN  /\ c.done
           /\ g' = [g EXCEPT ![p] = Got(g[p], c.val, c.err)]
    /\ UNCHANGED <<input, lastNL, phase, initErr, metas, file, chunkPool, single,
                   heap, reads, nfail, used>>

\* lines 251-253: db.chunkPool.Add under db.chunkLock
PoolAdd(p) ==
    /\ phase = "serving"
    /\ g[p].pc = "add"
    /\ LET a == lruAdd(chunkPool, MetaOf(p).ID, g[p].c)
           e == IF a.evicted = Nil
                THEN [heap |-> heap, metas |-> metas]
                ELSE OnEvicted(heap, metas, a.evicted.key, a.evicted.value)
       IN  /\ chunkPool' = a.pool
           /\ heap' = e.heap
           /\ metas' = e.metas
           /\ used' = Touch(used, MetaOf(p).ID, PoolIds(a.pool))
    /\ g' = [g EXCEPT ![p].pc = "fin"]
    /\ UNCHANGED <<input, lastNL, phase, initErr, file, single, reads, nfail>>

\* lines 255-267: meta.Chunk = c, the search in the chunk, the return
Finish(p) ==
    /\ phase = "serving"
    /\ g[p].pc = "fin"
    /\ metas' = [metas EXCEPT ![g[p].first + 1].Chunk = g[p].c]
    /\ LET res == searchChunk(heap[g[p].c], g[p].key)
       IN  g' = [g EXCEPT ![p] = Return(g[p], res.val, res.err)]
    /\ UNCHANGED <<input, lastNL, phase, initErr, file, chunkPool, single, heap,
                   reads, nfail, used>>

\* the steps of one goroutine: alone, it finds no call of another in the map
\* of db.single and never waits in c.wg.Wait()
Next ==
    \/ DBInit
    \/ \E p \in DOMAIN g, key \in KeySet : GetStart(p, key)
    \/ \E p \in DOMAIN g : DoEnter(p)
    \/ \E p \in DOMAIN g : DoLoad(p)
    \/ \E p \in DOMAIN g : DoLoadFail(p)
    \/ \E p \in DOMAIN g : DoDelete(p)
    \/ \E p \in DOMAIN g : PoolAdd(p)
    \/ \E p \in DOMAIN g : Finish(p)

Spec == Init /\ [][Next]_vars

\* the steps of goroutines that ask for the keys the input is made of; with
\* more than one, a caller of db.single.Do may have to wait for another
NextConc ==
    \/ DBInit
    \/ \E p \in DOMAIN g, key \in ConcKeys : GetStart(p, key)
    \/ \E p \in DOMAIN g : DoEnter(p)
    \/ \E p \in DOMAIN g : DoLoad(p)
    \/ \E p \in DOMAIN g : DoLoadFail(p)
    \/ \E p \in DOMAIN g : DoDelete(p)
    \/ \E p \in DOMAIN g : DoWake(p)
    \/ \E p \in DOMAIN g : PoolAdd(p)
    \/ \E p \in DOMAIN g : Finish(p)

\* concurrent callers of Get
SpecConc == InitConc /\ [][NextConc]_vars

\* the build alone
SpecBuild == Init /\ [][DBInit]_vars

\* the bytes of the input file: its lines, each with its '\n', the last one
\* without when the file does not end in one
RECURSIVE FileBytes(_, _)
FileBytes(ls, nl) ==
    IF ls = <<>> THEN <<>>
    ELSE IF Len(ls) = 1 THEN (IF nl THEN Append(ls[1], NL) ELSE ls[1])
    ELSE Append(Head(ls), NL) \o FileBytes(Tail(ls), nl)

\* TestDumpOneChunk: dumpOneChunk called on what parseOneChunk returns, with
\* no test of Len() > 0 in between, and with the input file itself as the
\* file to write to.  The bufio.Reader has read the whole input, so the
\* chunk is written after the input's bytes and offset counts them, while
\* *lastLoc is 0.  Encode panics on a nil *chunk; tmpchunk.KVs[0] panics on
\* an empty one
DumpFirstChunk ==
    /\ phase = "new"
    /\ LET r == parseOneChunk(input, lastNL, 1)
       IN  IF r.chunk = Nil
           THEN /\ phase' = "panicked"
                /\ initErr' = [err |-> "panic"]
                /\ file' = FileBytes(input, lastNL)
                /\ metas' = metas
           ELSE LET d == dumpOneChunk(r.chunk, FileBytes(input, lastNL), 0, 0)
                IN  /\ phase' = IF d.err = [err |-> "panic"]
                                THEN "panicked" ELSE "dumped"
                    /\ initErr' = d.err
                    /\ file' = d.file
                    /\ metas' = IF d.meta = Nil THEN <<>> ELSE <<d.meta>>
    /\ UNCHANGED <<input, lastNL, chunkPool, single, heap, g, reads, nfail, used>>

\* dumpOneChunk alone
SpecDump == Init /\ [][DumpFirstChunk]_vars


-----------------------------------------------------------------------------
(* Properties *)

\* DB.Init returned nil
Built == phase \in {"serving", "panicked"}

\* goroutine p has a call of Get that ended: it returned, or it panicked
Ended(p) == g[p].done \/ g[p].pc = "panic"

\* the call of p did not end with a failed disk read
NoReadError(p) == g[p].err # [err |-> "read"]

\* the KVs that the dump file holds for a chunkMeta
WrittenKVs(meta) == Decode(ReadAt(file, meta.StartLoc, meta.Len).buf).kvs

\* the index (from 1) of the last chunkMeta whose StartKey is <= key, or 0
LastLE(ms, key) ==
    LET S == {i \in 1..Len(ms) : BytesCompare(ms[i].StartKey, key) <= 0}
    IN  IF S = {} THEN 0 ELSE CHOOSE i \in S : \A j \in S : j <= i

SortedMetas(ms) ==
    \A i \in 1..(Len(ms) - 1) : BytesCompare(ms[i].StartKey, ms[i + 1].StartKey) <= 0

\* C1: after a successful Init over a well-formed, newline-terminated input
\* with unique keys, a Get for the key of any input record returns that
\* record's value and no error.
C1_GetReturnsEveryRecord ==
    (Built /\ WellFormed /\ UniqueKeys /\ lastNL) =>
        \A p \in DOMAIN g : \A i \in KeyLines :
            (Ended(p) /\ NoReadError(p) /\ g[p].key = InputKV(i).Key) =>
                (g[p].err = Nil /\ g[p].val = InputKV(i).Value)

\* C2: over a non-empty sorted index (built from a well-formed,
\* newline-terminated input), the metadata search of Get returns the last
\* entry whose StartKey is <= the query key, when there is one.
C2_SearchReturnsLastLE ==
    (Built /\ WellFormed /\ lastNL /\ Len(metas) > 0 /\ SortedMetas(metas)) =>
        \A p \in DOMAIN g :
            (Ended(p) /\ LastLE(metas, g[p].key) > 0) =>
                (g[p].pc # "panic" /\ g[p].first + 1 = LastLE(metas, g[p].key))

\* C3: a key strictly between the StartKeys of two adjacent chunks that is
\* the key of a record written in the earlier chunk is found by Get, with
\* that record's value.
C3_KeyInsideEarlierChunk ==
    (Built /\ UniqueKeys) =>
        \A p \in DOMAIN g : \A i \in 1..(Len(metas) - 1) :
            \A n \in 1..Len(WrittenKVs(metas[i])) :
                (/\ Ended(p) /\ NoReadError(p)
                 /\ BytesCompare(metas[i].StartKey, g[p].key) < 0
                 /\ BytesCompare(g[p].key, metas[i + 1].StartKey) < 0
                 /\ WrittenKVs(metas[i])[n].Key = g[p].key) =>
                    (g[p].err = Nil /\ g[p].val = WrittenKVs(metas[i])[n].Value)

\* C4: after a successful Init over a well-formed, newline-terminated input,
\* a Get for a key that no input record holds returns the key-not-found
\* error as a value: no value, no panic.
C4_AbsentKeyNotFound ==
    (Built /\ WellFormed /\ lastNL) =>
        \A p \in DOMAIN g :
            (Ended(p) /\ NoReadError(p) /\ g[p].key \notin InputKeys) =>
                (/\ g[p].pc # "panic"
                 /\ g[p].err = [err |-> "no such key"]
                 /\ g[p].val = <<>>)

\* C5: while two goroutines are both inside Get on the load path for the
\* same chunk (neither found meta.Chunk set), and no read has failed, the
\* dump file has been read at most once for that chunk.
C5_OneReadPerChunk ==
    \A p, q \in DOMAIN g :
        (/\ p # q /\ phase = "serving" /\ nfail = 0
         /\ g[p].pc \in {"do", "wait", "load", "del", "add", "fin"}
         /\ g[q].pc \in {"do", "wait", "load", "del", "add", "fin"}
         /\ MetaOf(p).ID = MetaOf(q).ID) =>
            reads[MetaOf(p).ID] <= 1

PoolKeys == {chunkPool[i].key : i \in 1..Len(chunkPool)}
PoolValues == {chunkPool[i].value : i \in 1..Len(chunkPool)}

\* no goroutine is inside Get
Quiet == \A p \in DOMAIN g : g[p].pc = "idle"

\* C6: a chunk that was loaded and is no longer in the LRU pool (it was
\* evicted) has meta.Chunk = nil, so that the next Get reads it again.
C6_EvictedChunkIsNil ==
    (phase = "serving" /\ Quiet) =>
        \A i \in 1..Len(metas) :
            (reads[metas[i].ID] > 0 /\ metas[i].ID \notin PoolKeys) =>
                metas[i].Chunk = Nil

\* the decoded chunks that the pool or a chunkMeta refers to
Resident == (PoolValues \cup {metas[i].Chunk : i \in 1..Len(metas)}) \ {Nil}

\* C7: at most MaxChunks decoded chunks are referred to by the pool and the
\* chunkMetas together.
C7_ResidentAtMostMaxChunks == Built => Cardinality(Resident) <= MaxChunks

\* C8: after a successful Init over an input with unique keys, db.metas is
\* strictly ascending by StartKey.
C8_MetasStrictlySorted ==
    (Built /\ UniqueKeys) =>
        \A i \in 1..(Len(metas) - 1) :
            BytesCompare(metas[i].StartKey, metas[i + 1].StartKey) < 0

\* C8 witness: three chunks were written in an order that is not the order
\* of their StartKeys, and the index differs from the order of writing.
C8_Witness ==
    /\ Built /\ UniqueKeys /\ Len(metas) = 3
    /\ metas[1].ID > metas[2].ID
    /\ metas[3].ID = 0

\* the number of times record r occurs in a sequence of records
Count(seq, r) == Cardinality({n \in 1..Len(seq) : seq[n] = r})

\* the records of all written chunks, in the order of db.metas
RECURSIVE WrittenFrom(_)
WrittenFrom(m) ==
    IF m > Len(metas) THEN <<>> ELSE WrittenKVs(metas[m]) \o WrittenFrom(m + 1)

AllWritten == WrittenFrom(1)
AllInput == [n \in 1..Len(input) |-> InputKV(n)]

\* C9: after a successful Init over a well-formed input, every record of the
\* input is in the written chunks as often as it is in the input, and the
\* written chunks hold nothing else.
C9_EveryRecordWrittenOnce ==
    (Built /\ WellFormed) =>
        /\ \A i \in 1..Len(AllInput) :
              Count(AllWritten, AllInput[i]) = Count(AllInput, AllInput[i])
        /\ \A n \in 1..Len(AllWritten) :
              \E i \in 1..Len(AllInput) : AllInput[i] = AllWritten[n]

\* C10: Init fails whenever a line of a newline-terminated input does not
\* hold exactly four fields.
C10_MalformedLineFailsBuild ==
    (phase # "new" /\ lastNL /\ ~WellFormed) => (phase = "failed" /\ initErr # Nil)

\* C14: the search of Get inside the chunk it fetched is an exact-match
\* search: a call that returned without a read error returned the value of
\* a record of that chunk with the key asked for when the chunk holds one,
\* and the key-not-found error when it holds none.
C14_ChunkSearchExact ==
    Built =>
        \A p \in DOMAIN g :
            (g[p].done /\ NoReadError(p)) =>
                LET kvs == WrittenKVs(metas[g[p].first + 1])
                    S   == {n \in 1..Len(kvs) : kvs[n].Key = g[p].key}
                IN  IF S = {}
                    THEN g[p].err = [err |-> "no such key"]
                    ELSE /\ g[p].err = Nil
                         /\ \E n \in S : g[p].val = kvs[n].Value

\* the key is above some StartKey, below some StartKey, and is no StartKey
Interior(ms, key) ==
    /\ \E i \in 1..Len(ms) : BytesCompare(ms[i].StartKey, key) < 0
    /\ \E i \in 1..Len(ms) : BytesCompare(key, ms[i].StartKey) < 0
    /\ \A i \in 1..Len(ms) : ms[i].StartKey # key

\* C15: for a key above the smallest StartKey, below the largest and equal
\* to none, lowerSearchMeta returns an index idx (from 0) with
\* metas[idx-1].StartKey < key < metas[idx].StartKey, and does not panic.
C15_InteriorKeyBetweenNeighbours ==
    Built =>
        \A p \in DOMAIN g :
            (Ended(p) /\ Interior(metas, g[p].key)) =>
                /\ g[p].pc # "panic"
                /\ g[p].first >= 1 /\ g[p].first < Len(metas)
                /\ BytesCompare(metas[g[p].first].StartKey, g[p].key) < 0
                /\ BytesCompare(g[p].key, metas[g[p].first + 1].StartKey) < 0

\* C15 witness: over an index of three chunks a Get for a key that lies
\* between the second and the third StartKey has ended.
C15_Witness ==
    /\ Built /\ Len(metas) = 3
    /\ \E p \in DOMAIN g :
          /\ Ended(p) /\ Interior(metas, g[p].key)
          /\ g[p].first = 2

\* C16: the written chunks partition the key space: every record of the
\* chunk of metas[i] has a key k with metas[i].StartKey <= k, and
\* k < metas[i+1].StartKey when metas[i] is not the last.
C16_ChunksPartitionKeys ==
    (Built /\ WellFormed /\ lastNL /\ UniqueKeys) =>
        \A i \in 1..Len(metas) : \A n \in 1..Len(WrittenKVs(metas[i])) :
            /\ BytesCompare(metas[i].StartKey, WrittenKVs(metas[i])[n].Key) <= 0
            /\ i < Len(metas) =>
                  BytesCompare(WrittenKVs(metas[i])[n].Key,
                               metas[i + 1].StartKey) < 0

\* C20: Get never returns a wrong value: a call that returned a value and a
\* nil error returned the value of a record of the input, and of the chunk
\* it fetched, whose key is the key asked for.
C20_NoWrongValue ==
    Built =>
        \A p \in DOMAIN g :
            (g[p].done /\ g[p].err = Nil) =>
                /\ \E i \in KeyLines :
                      InputKV(i) = [Key |-> g[p].key, Value |-> g[p].val]
                /\ \E n \in 1..Len(WrittenKVs(metas[g[p].first + 1])) :
                      WrittenKVs(metas[g[p].first + 1])[n] =
                          [Key |-> g[p].key, Value |-> g[p].val]

\* C20 witness: Get returned a value, from a chunk of two records the second
\* of which has the key asked for (both have, as the search led to this
\* chunk), and the input holds another value as well.
C20_Witness ==
    /\ Built
    /\ \E p \in DOMAIN g :
          /\ g[p].done /\ g[p].err = Nil
          /\ Len(WrittenKVs(metas[g[p].first + 1])) = 2
          /\ WrittenKVs(metas[g[p].first + 1])[2].Key = g[p].key
          /\ \E i \in KeyLines : InputKV(i).Value # g[p].val

\* the sorted KVs of the chunk that preprocess numbers want, taken from the
\* input lines: the chunks are cut from line pos on, the first has number id
RECURSIVE SortedChunkFrom(_, _, _)
SortedChunkFrom(pos, id, want) ==
    LET r == parseOneChunk(input, lastNL, pos)
    IN  IF r.chunk = Nil THEN <<>>
        ELSE IF id = want THEN SortChunk(r.chunk).KVs
        ELSE IF r.err = EOF THEN <<>>
        ELSE SortedChunkFrom(r.pos, id + 1, want)

SortedChunk(id) == SortedChunkFrom(1, 0, id)

\* C19: in every state reached by concurrent calls of Get, every meta.Chunk
\* is nil or a completely decoded chunk of that chunkMeta's id, equal to the
\* sorted records that Init wrote for the id, which are the bytes of the
\* dump file at (StartLoc, Len); and the chunk that a Get holds to search,
\* be it from its own read or from the call of another goroutine, is the
\* chunk of the id it asked for, the last chunk of the file, whose read ends
\* at the end of the file, included.
C19_LoadedChunkIsWhatWasWritten ==
    Built =>
        /\ \A i \in 1..Len(metas) :
              metas[i].Chunk # Nil =>
                  /\ metas[i].Chunk.id = metas[i].ID
                  /\ heap[metas[i].Chunk].KVs = SortedChunk(metas[i].ID)
                  /\ Encode(heap[metas[i].Chunk]) =
                         ReadAt(file, metas[i].StartLoc, metas[i].Len).buf
        /\ \A p \in DOMAIN g :
              g[p].c # Nil =>
                  /\ g[p].c.id = MetaOf(p).ID
                  /\ heap[g[p].c].KVs = SortedChunk(MetaOf(p).ID)

\* C19 witness: two goroutines hold the same decoded chunk, one from its own
\* read and one from waiting for that call, and both stand before the write
\* of meta.Chunk at line 255, which is still nil; the chunk is the last of
\* the dump file (its read ended at the end of the file) and not the first;
\* and the first chunk of the file, two records that the input held in
\* another order, is loaded already.
C19_Witness ==
    /\ Built
    /\ \E i, j \in 1..Len(metas) : \E p, q \in DOMAIN g :
          /\ p # q
          /\ g[p].pc = "fin" /\ g[q].pc = "fin"
          /\ g[p].first + 1 = i /\ g[q].first + 1 = i
          /\ g[p].c = g[q].c
          /\ metas[i].Chunk = Nil
          /\ metas[i].StartLoc > 0
          /\ metas[i].StartLoc + metas[i].Len = Len(file)
          /\ metas[j].StartLoc = 0
          /\ metas[j].Chunk # Nil
          /\ Len(heap[metas[j].Chunk].KVs) = 2
          /\ heap[metas[j].Chunk].KVs # parseOneChunk(input, lastNL, 1).chunk.KVs

\* what Get(key) computes from db.metas and the dump file alone: the
\* metadata search, the chunk read and decoded from the file, the search in it
StaticGet(key) ==
    LET r == lowerSearchMeta(metas, key)
    IN  IF r.panic THEN [val |-> <<>>, err |-> [err |-> "panic"]]
        ELSE LET l == loadChunk(file, metas[r.first + 1])
             IN  IF l.err # Nil THEN [val |-> <<>>, err |-> l.err]
                 ELSE searchChunk(l.chunk, key)

\* C11: after Init, Get is deterministic: a call that ended (and that no
\* failed disk read ended) has the result that the key has over the index
\* and the dump file, whatever calls came before, whatever the pool holds
\* and however the calls of two goroutines interleave.
C11_GetDeterministic ==
    Built =>
        \A p \in DOMAIN g :
            (Ended(p) /\ NoReadError(p)) =>
                /\ g[p].val = StaticGet(g[p].key).val
                /\ g[p].err = StaticGet(g[p].key).err

\* C11 witness: two goroutines got a value for the same key, its chunk was
\* read from the file twice and has been evicted from the full pool since.
C11_Witness ==
    /\ Built
    /\ Len(chunkPool) = MaxChunks
    /\ \E p, q \in DOMAIN g :
          /\ p # q
          /\ g[p].done /\ g[q].done
          /\ g[p].key = g[q].key
          /\ g[p].err = Nil /\ g[q].err = Nil
          /\ reads[metas[g[p].first + 1].ID] = 2
          /\ metas[g[p].first + 1].ID \notin PoolKeys

\* the call of singleflight that goroutine p holds
CallOf(p) == single[metas[g[p].first + 1].ID][g[p].call]

\* C18: a failed read of a chunk is given to every caller of that call of
\* db.single.Do and is not kept.  The step in which the read fails changes
\* no meta.Chunk (a nil one stays nil), not the pool and no decoded chunk;
\* the goroutine that ran the read and every goroutine that waited for the
\* call return the error when they leave Do, changing none of these either.
\* And a later Get, one that started after a Get for the same chunk had
\* returned that error, reads the file again when it enters db.single.Do:
\* it makes a new call, or holds one whose read has not ended; it is not
\* given a call whose read ended before.
C18_FailedLoadNotCached ==
    [][/\ nfail' = nfail + 1 =>
             /\ metas' = metas
             /\ chunkPool' = chunkPool
             /\ heap' = heap
       /\ \A p \in DOMAIN g :
             (/\ g[p].pc \in {"del", "wait"} /\ g'[p].pc # g[p].pc
              /\ CallOf(p).err # Nil) =>
                 /\ g'[p].done
                 /\ g'[p].err = CallOf(p).err
                 /\ g'[p].val = <<>>
                 /\ metas' = metas
                 /\ chunkPool' = chunkPool
                 /\ heap' = heap
       /\ \A p \in DOMAIN g :
             (g[p].pc = "do" /\ g[p].late /\ g'[p].pc # "do") =>
                 ~single'[metas[g[p].first + 1].ID][g'[p].call].done]_vars


\* C17: every write of meta.Chunk is made under db.chunkLock, so that no
\* state is reachable in which two goroutines have both left the critical
\* section of lines 251-253 and are both about to write the Chunk field of
\* the same chunkMeta (line 255) with nothing that orders the two writes.
C17_ChunkWrittenUnderLock ==
    phase = "serving" =>
        \A p, q \in DOMAIN g :
            (p # q /\ g[p].pc = "fin" /\ g[q].pc = "fin") =>
                g[p].first # g[q].first

\* C12: dumpOneChunk called with a chunk of zero records returns an error as
\* a value (it does not panic), and has written nothing to the file: the
\* file holds the bytes it held before the call.
C12_EmptyChunkIsAnError ==
    (/\ phase \in {"dumped", "panicked"}
     /\ parseOneChunk(input, lastNL, 1).chunk # Nil
     /\ Len(parseOneChunk(input, lastNL, 1).chunk.KVs) = 0) =>
        /\ phase = "dumped"
        /\ initErr # Nil
        /\ metas = <<>>
        /\ file = FileBytes(input, lastNL)

\* C13: eviction is least-recently-used over every Get, the ones served
\* from meta.Chunk (line 225) included: a chunk that a step removes from the
\* pool is, of the chunks in the pool, the one that Get served last the
\* longest ago.
C13_EvictsLeastRecentlyServed ==
    [][\A k \in PoolIds(chunkPool) :
          k \notin PoolIds(chunkPool') =>
              (used # <<>> /\ k = used[Len(used)])]_vars

=============================================================================
